---- MODULE Spec2Model ----
(***************************************************************************)
(* A model of the OMI NO2/SO2 scripts of masoomjethwa/OMI_data_trial.      *)
(*                                                                         *)
(* The core is read_omi_no2_so2_at_a_location.py: a batch loop over the    *)
(* names of fileList.txt that resolves the product from the file name,     *)
(* calibrates the primary field, finds the pixel nearest to a query point  *)
(* and prints statistics of the 3x3 and the 5x5 window around it.          *)
(*                                                                         *)
(* Floating point values are tagged: Num(v) is the number v and NaN is     *)
(* not-a-number.  Arithmetic propagates NaN and every comparison with NaN  *)
(* is false, as in IEEE 754.  Arrays are functions from (row, col) pairs,  *)
(* 0-based as in numpy, to values.                                         *)
(***************************************************************************)
EXTENDS Integers, Sequences, FiniteSets, TLC

VARIABLES
    pc,          \* position of main() in the loop body
    fileIdx,     \* number of lines of fileList.txt consumed so far
    FILE_NAME,   \* the stripped line being processed
    openFiles,   \* indices of the h5py files currently open
    offered,     \* indices of the lines for which the process prompt was shown
    present,     \* what the open container holds (groups, fields, attributes)
    SDS_NAME,    \* primary field name chosen by the product branch
    swath,       \* swath group chosen by the product branch
    rangeRead,   \* TRUE when the ValidRange attribute was read
    out,         \* the last message printed
    lat, lon,    \* geolocation arrays
    geoShape,    \* their shape <<height, width>>
    bounds,      \* <<min_lat, max_lat, min_lon, max_lon>>
    raw,         \* the field as stored in the file
    attrs,       \* [fv, mv, scale, offset] read from the field's attributes
    dataShape,   \* shape of the field
    dataArray,   \* the calibrated field
    again,       \* the calibrated field passed through lines 78-81 once more
    user_lat, user_lon,   \* the accepted query point
    d,           \* the distance array of the nearest-pixel search
    x, y,        \* the located pixel
    radius,      \* radius of the window last evaluated
    report,      \* window reports, keyed by radius
    valid_min, valid_max,   \* the ValidRange attribute read by the SO2 branch
    dump,        \* read_omi_no2_so2_and_dump_ascii.py: the dataset exported
    output,      \* read_omi_no2_so2_and_dump_ascii.py: the exported column
    futures,     \* try4.py: position of the process_file call of each file
    result,      \* try4.py: what process_file returned for each file
    collected,   \* try4.py: the futures main() has taken from as_completed
    success_count,   \* try4.py: the counter of main()
    figs,        \* try4.py: pyplot's open figures, the current one last
    saved,       \* try4.py: for each file, the figures saved to its png
    dataset,     \* try1.py: the opened files
    latitudes, longitudes, so2_values,   \* try1.py: the extracted lists
    df           \* try1.py: the rows of the DataFrame

batchVars == <<pc, fileIdx, FILE_NAME, openFiles, offered, present, SDS_NAME,
               swath, rangeRead, out>>
geoVars   == <<lat, lon, geoShape, bounds>>
dataVars  == <<raw, attrs, dataShape, dataArray, again>>
queryVars == <<user_lat, user_lon, d, x, y>>
winVars   == <<radius, report>>
rangeVars == <<valid_min, valid_max>>
poolVars  == <<futures, result, collected, success_count, figs, saved>>
heatVars  == <<dataset, latitudes, longitudes, so2_values, df>>
scriptVars == <<dump, output, poolVars, heatVars>>
vars      == <<batchVars, geoVars, dataVars, queryVars, winVars, rangeVars,
               scriptVars>>

----------------------------------------------------------------------------
(* Bounds of the model.                                                    *)

\* Longest side of an array.
MaxDim == 5
\* Largest number of cells of a data array.
MaxCells == 5
\* Largest number of cells of a geolocation array in the nearest-pixel search.
MaxGeoCells == 3
\* Largest window radius tried on the window helper.
MaxRadius == 2
\* Number of lines of fileList.txt.
NumFiles == 2
\* Largest number of cells of a dataset of the ASCII dump.
MaxDumpCells == 4
\* Number of .he5 files found by try4.py.
NumPoolFiles == 2
\* Number of files opened by try1.py, and number of cells of their grids.
NumHeatFiles == 2
HeatCells == 2
\* try4.py line 34.
MAX_WORKERS == 4
\* Width of the widest array held by a file of the batch.
BatchWidth == 3

----------------------------------------------------------------------------
(* Floating point values.                                                  *)

NaN == <<>>
Num(v) == <<v>>
IsNaN(a) == a = NaN
Val(a) == a[1]

\* a == b on floats: false when either side is NaN.
FEq(a, b) == ~IsNaN(a) /\ ~IsNaN(b) /\ Val(a) = Val(b)
\* a <= b on floats: false when either side is NaN.
FLeq(a, b) == ~IsNaN(a) /\ ~IsNaN(b) /\ Val(a) <= Val(b)
FSub(a, b) == IF IsNaN(a) \/ IsNaN(b) THEN NaN ELSE Num(Val(a) - Val(b))
FMul(a, b) == IF IsNaN(a) \/ IsNaN(b) THEN NaN ELSE Num(Val(a) * Val(b))

Max(a, b) == IF a >= b THEN a ELSE b
Min(a, b) == IF a <= b THEN a ELSE b

\* The index set of an array of the given shape, row-major pairs.
Cells(shape) == (0 .. shape[1] - 1) \X (0 .. shape[2] - 1)

\* The empty array, the value of an array variable not yet assigned.
NoArray == [c \in {} |-> NaN]

----------------------------------------------------------------------------
(* Calibration: read_omi_no2_so2_at_a_location.py lines 78-81.             *)

\* sds[:].astype(float)
AsFloat(rawArr) == [c \in DOMAIN rawArr |-> Num(rawArr[c])]

\* The mutant compares nothing: no cell is masked.
MaskEqualNever(arr, v) == arr

\* dataArray[dataArray == float(v)] = np.nan
MaskEqual(arr, v) ==
    [c \in DOMAIN arr |-> IF FEq(arr[c], Num(v)) THEN NaN ELSE arr[c]]

\* The mutant reads a NaN as 0 before it scales, as np.nan_to_num would.
ScaleOffsetNanAsZero(arr, scale, offset) ==
    [c \in DOMAIN arr |->
        IF IsNaN(arr[c]) THEN Num(scale * (0 - offset))
        ELSE FMul(Num(scale), FSub(arr[c], Num(offset)))]

\* dataArray = scale * (dataArray - offset)
ScaleOffset(arr, scale, offset) ==
    [c \in DOMAIN arr |-> FMul(Num(scale), FSub(arr[c], Num(offset)))]

\* The mutant scales first and compares the scaled values with fv and mv.
CalibrateScaleFirst(rawArr, a) ==
    MaskEqual(MaskEqual(ScaleOffset(AsFloat(rawArr), a.scale, a.offset), a.fv), a.mv)

\* Lines 78-81 in order: cast, mask fill, mask missing, scale and offset.
Calibrate(rawArr, a) ==
    ScaleOffset(MaskEqual(MaskEqual(AsFloat(rawArr), a.fv), a.mv), a.scale, a.offset)

\* Lines 78-81 applied to an array that is already of floats: astype(float)
\* leaves it as it is, then the same masks, scale and offset.
Recalibrate(arr, a) ==
    ScaleOffset(MaskEqual(MaskEqual(arr, a.fv), a.mv), a.scale, a.offset)

----------------------------------------------------------------------------
(* Window statistics: read_omi_no2_so2_at_a_location.py lines 124-158.     *)

\* The mutant does not clamp the start of the window at 0.
safe_slice_unclamped(idx, max_idx, r) ==
    <<idx - r, Min(idx + r + 1, max_idx)>>

\* The mutant does not clamp the end of the window at max_idx.
safe_slice_open_end(idx, max_idx, r) ==
    <<Max(idx - r, 0), idx + r + 1>>

\* The mutant ends the window at idx + r, leaving the last row or column out.
safe_slice_short(idx, max_idx, r) ==
    <<Max(idx - r, 0), Min(idx + r, max_idx)>>

\* def safe_slice(idx, max_idx, radius): the clamped <<start, end>> of one axis.
safe_slice(idx, max_idx, r) ==
    <<Max(idx - r, 0), Min(idx + r + 1, max_idx)>>

\* The indices selected by a[start:stop] on an axis of length n: a negative
\* bound counts from the end and both bounds are cut to 0..n.
PySlice(start, stop, n) ==
    LET norm(i) == IF i < 0 THEN Max(i + n, 0) ELSE Min(i, n)
    IN  norm(start) .. (norm(stop) - 1)

\* The cells of dataArray[x_start:x_end, y_start:y_end] around (row, col).
WindowCells(shape, row, col, r) ==
    LET xs == safe_slice(row, shape[1], r)
        ys == safe_slice(col, shape[2], r)
    IN  PySlice(xs[1], xs[2], shape[1]) \X PySlice(ys[1], ys[2], shape[2])

\* The cells np.isnan does not flag: the ones the nan-statistics use.
ValidCells(arr, W) == {c \in W : ~IsNaN(arr[c])}

RECURSIVE SumOver(_, _)
SumOver(arr, S) ==
    IF S = {} THEN 0
    ELSE LET c == CHOOSE e \in S : TRUE
         IN  Val(arr[c]) + SumOver(arr, S \ {c})

RECURSIVE SumSqOver(_, _)
SumSqOver(arr, S) ==
    IF S = {} THEN 0
    ELSE LET c == CHOOSE e \in S : TRUE
         IN  Val(arr[c]) * Val(arr[c]) + SumSqOver(arr, S \ {c})

\* The values of the cells of S in ascending order.
RECURSIVE SortedOver(_, _)
SortedOver(arr, S) ==
    IF S = {} THEN <<>>
    ELSE LET c == CHOOSE e \in S : \A f \in S : Val(arr[e]) <= Val(arr[f])
         IN  <<Val(arr[c])>> \o SortedOver(arr, S \ {c})

\* A rational num/den, kept as the pair.
Rat(num, den) == <<num, den>>

\* np.nanmean: the sum of the valid cells over their number.
NanMean(arr, V) == Rat(SumOver(arr, V), Cardinality(V))

\* np.nanmedian: the middle valid value, or the mean of the two middle ones.
NanMedian(arr, V) ==
    LET s == SortedOver(arr, V)
        n == Len(s)
    IN  IF n % 2 = 1 THEN Rat(2 * s[(n + 1) \div 2], 2)
        ELSE Rat(s[n \div 2] + s[n \div 2 + 1], 2)

\* np.nanstd squared: the population variance (n*sum(v^2) - sum(v)^2) / n^2.
NanVar(arr, V) ==
    LET n == Cardinality(V)
    IN  Rat(n * SumSqOver(arr, V) - SumOver(arr, V) * SumOver(arr, V), n * n)

\* The mutant computes the statistics of an empty window too.
WindowStatsAlways(arr, shape, row, col, r) ==
    LET V == ValidCells(arr, WindowCells(shape, row, col, r))
        nnan == Cardinality(V)
    IN  IF nnan = 0
        THEN [kind |-> "stats", nnan |-> 0,
              avg |-> NaN, med |-> NaN, var |-> NaN]
        ELSE [kind |-> "stats", nnan |-> nnan,
              avg |-> NanMean(arr, V), med |-> NanMedian(arr, V),
              var |-> NanVar(arr, V)]

\* The mutant leaves the centre cell out of the window.
WindowStatsNoCentre(arr, shape, row, col, r) ==
    LET V == ValidCells(arr, WindowCells(shape, row, col, r) \ {<<row, col>>})
        nnan == Cardinality(V)
    IN  IF nnan = 0
        THEN [kind |-> "none", nnan |-> 0,
              avg |-> NaN, med |-> NaN, var |-> NaN]
        ELSE [kind |-> "stats", nnan |-> nnan,
              avg |-> NanMean(arr, V), med |-> NanMedian(arr, V),
              var |-> NanVar(arr, V)]

\* The report of one window: the count and, when it is not zero, the three
\* statistics; "none" is the 'no valid pixels' message.
WindowStats(arr, shape, row, col, r) ==
    LET V == ValidCells(arr, WindowCells(shape, row, col, r))
        nnan == Cardinality(V)
    IN  IF nnan = 0
        THEN [kind |-> "none", nnan |-> 0,
              avg |-> NaN, med |-> NaN, var |-> NaN]
        ELSE [kind |-> "stats", nnan |-> nnan,
              avg |-> NanMean(arr, V), med |-> NanMedian(arr, V),
              var |-> NanVar(arr, V)]

NoReport == [r \in {} |-> NaN]

----------------------------------------------------------------------------
(* Bounds and nearest pixel: read_omi_no2_so2_at_a_location.py lines       *)
(* 61-64 and 86-117.  Angles are whole degrees, multiples of 30.           *)

\* The flat (row-major) indices of an array and np.unravel_index.
FlatIndices(shape) == 0 .. (shape[1] * shape[2] - 1)
Unravel(i, shape) == <<i \div shape[2], i % shape[2]>>

\* np.min: NaN as soon as one entry is NaN, else the least entry.
NpMin(arr) ==
    IF \E c \in DOMAIN arr : IsNaN(arr[c]) THEN NaN
    ELSE LET c == CHOOSE e \in DOMAIN arr :
                      \A f \in DOMAIN arr : Val(arr[e]) <= Val(arr[f])
         IN  arr[c]

\* np.max: NaN as soon as one entry is NaN, else the greatest entry.
NpMax(arr) ==
    IF \E c \in DOMAIN arr : IsNaN(arr[c]) THEN NaN
    ELSE LET c == CHOOSE e \in DOMAIN arr :
                      \A f \in DOMAIN arr : Val(arr[e]) >= Val(arr[f])
         IN  arr[c]

\* Lines 63-64: <<min_lat, max_lat, min_lon, max_lon>>.
BoundsOf(latArr, lonArr) ==
    <<NpMin(latArr), NpMax(latArr), NpMin(lonArr), NpMax(lonArr)>>

\* The mutant accepts every numeric value.
InRangeAlways(lo, v, hi) == ~IsNaN(v)

\* lo <= v <= hi on floats (lines 90 and 99).
InRange(lo, v, hi) == FLeq(lo, v) /\ FLeq(v, hi)

\* np.sin(np.radians(deg) / 2) ** 2 in thousandths.
SinHalfSq(deg) ==
    LET m == (IF deg < 0 THEN 0 - deg ELSE deg) % 360
        a == IF m > 180 THEN 360 - m ELSE m
    IN  CASE a = 0 -> 0
          [] a = 30 -> 67
          [] a = 60 -> 250
          [] a = 90 -> 500
          [] a = 120 -> 750
          [] a = 150 -> 933
          [] a = 180 -> 1000

\* np.cos(np.radians(deg)) in thousandths.
Cos(deg) ==
    LET m == (IF deg < 0 THEN 0 - deg ELSE deg) % 360
        a == IF m > 180 THEN 360 - m ELSE m
    IN  CASE a = 0 -> 1000
          [] a = 30 -> 866
          [] a = 60 -> 500
          [] a = 90 -> 0
          [] a = 120 -> -500
          [] a = 150 -> -866
          [] a = 180 -> -1000

\* Line 112: a = sin(dlat/2)^2 + cos(lat1) * cos(lat2) * sin(dlon/2)^2, in
\* units of 10^-9.  Lines 113-114 map a to the distance
\* d = R * 2 * arctan2(sqrt(a), sqrt(1 - a)), which grows strictly with a
\* on 0 <= a <= 1 and is NaN for a > 1, so a stands for d in the search.
Haversine(lat2, lon2, qlat, qlon) ==
    IF IsNaN(lat2) \/ IsNaN(lon2) \/ IsNaN(qlat) \/ IsNaN(qlon) THEN NaN
    ELSE LET a == SinHalfSq(Val(lat2) - Val(qlat)) * 1000000
                  + Cos(Val(qlat)) * Cos(Val(lat2))
                    * SinHalfSq(Val(lon2) - Val(qlon))
         IN  IF a > 1000000000 THEN NaN ELSE Num(a)

\* Lines 107-114 over the whole grid.
DistanceArray(latArr, lonArr, qlat, qlon) ==
    [c \in DOMAIN latArr |-> Haversine(latArr[c], lonArr[c], qlat, qlon)]

\* The mutant returns the last flat index of the minimum.
ArgMinLast(arr, shape) ==
    LET at(i) == arr[Unravel(i, shape)]
        I == FlatIndices(shape)
    IN  CHOOSE i \in I : \A j \in I : j <= i

\* The mutant returns the last flat index among those of the least value.
ArgMinLastOfTies(arr, shape) ==
    LET at(i) == arr[Unravel(i, shape)]
        I == FlatIndices(shape)
        nans == {i \in I : IsNaN(at(i))}
    IN  IF nans # {}
        THEN CHOOSE i \in nans : \A j \in nans : j <= i
        ELSE CHOOSE i \in I :
                 \A j \in I : /\ Val(at(i)) <= Val(at(j))
                              /\ (Val(at(j)) = Val(at(i)) => j <= i)

\* d.argmin(): the first flat index holding NaN when there is one, else the
\* first flat index of the least value.
ArgMin(arr, shape) ==
    LET at(i) == arr[Unravel(i, shape)]
        I == FlatIndices(shape)
        nans == {i \in I : IsNaN(at(i))}
    IN  IF nans # {}
        THEN CHOOSE i \in nans : \A j \in nans : i <= j
        ELSE CHOOSE i \in I :
                 \A j \in I : /\ Val(at(i)) <= Val(at(j))
                              /\ (Val(at(j)) = Val(at(i)) => i <= j)

\* What float(input(...)) gives: a ValueError or a float, NaN included.
LatInputs ==
    {[ok |-> FALSE, v |-> NaN]}
        \cup {[ok |-> TRUE, v |-> f] : f \in {NaN, Num(-30), Num(0), Num(30), Num(60), Num(90)}}
LonInputs ==
    {[ok |-> FALSE, v |-> NaN]}
        \cup {[ok |-> TRUE, v |-> f] : f \in {NaN, Num(-60), Num(0), Num(60), Num(120)}}

\* Lines 87-94: one pass of the latitude prompt loop.
PromptLat ==
    /\ pc = "promptLat"
    /\ \E inp \in LatInputs :
          IF ~inp.ok
          THEN /\ out' = "Invalid input. Please enter a numeric value."
               /\ UNCHANGED <<pc, user_lat>>
          ELSE IF InRange(bounds[1], inp.v, bounds[2])
          THEN /\ user_lat' = inp.v
               /\ pc' = "promptLon"
               /\ UNCHANGED out
          ELSE /\ out' = "Latitude out of range. Please enter a valid latitude."
               /\ UNCHANGED <<pc, user_lat>>
    /\ UNCHANGED <<fileIdx, FILE_NAME, openFiles, offered, present, SDS_NAME,
                   swath, rangeRead>>
    /\ UNCHANGED <<geoVars, dataVars, user_lon, d, x, y, winVars>>
    /\ UNCHANGED <<rangeVars, scriptVars>>

\* Lines 96-103: one pass of the longitude prompt loop.
PromptLon ==
    /\ pc = "promptLon"
    /\ \E inp \in LonInputs :
          IF ~inp.ok
          THEN /\ out' = "Invalid input. Please enter a numeric value."
               /\ UNCHANGED <<pc, user_lon>>
          ELSE IF InRange(bounds[3], inp.v, bounds[4])
          THEN /\ user_lon' = inp.v
               /\ pc' = "locate"
               /\ UNCHANGED out
          ELSE /\ out' = "Longitude out of range. Please enter a valid longitude."
               /\ UNCHANGED <<pc, user_lon>>
    /\ UNCHANGED <<fileIdx, FILE_NAME, openFiles, offered, present, SDS_NAME,
                   swath, rangeRead>>
    /\ UNCHANGED <<geoVars, dataVars, user_lat, d, x, y, winVars>>
    /\ UNCHANGED <<rangeVars, scriptVars>>

\* Lines 105-117: the distance array, its argmin and the nearest pixel.
Locate ==
    /\ pc = "locate"
    /\ d' = DistanceArray(lat, lon, user_lat, user_lon)
    /\ LET at == Unravel(ArgMin(d', geoShape), geoShape)
       IN  x' = at[1] /\ y' = at[2]
    /\ out' = "The nearest pixel to your entered location is at:"
    /\ pc' = "pixel"
    /\ UNCHANGED <<fileIdx, FILE_NAME, openFiles, offered, present, SDS_NAME,
                   swath, rangeRead>>
    /\ UNCHANGED <<geoVars, dataVars, user_lat, user_lon, winVars>>
    /\ UNCHANGED <<rangeVars, scriptVars>>

\* Inputs of the nearest-pixel check.
GeoShapes ==
    {s \in (1 .. MaxGeoCells) \X (1 .. MaxGeoCells) : s[1] * s[2] <= MaxGeoCells}
LatValues == {NaN, Num(0), Num(30), Num(60)}
LonValues == {Num(0), Num(60)}

----------------------------------------------------------------------------
(* Inputs of the calibration and window checks.                            *)

Shapes == {s \in (1 .. MaxDim) \X (1 .. MaxDim) : s[1] * s[2] <= MaxCells}
RawValues == {0, 1, 2}
AttrSets == [fv : {0}, mv : {0, 1}, scale : {1, 2}, offset : {0, 1}]
NoAttrs == [fv |-> 0, mv |-> 0, scale |-> 1, offset |-> 0]

\* The state of the variables a check does not use.
IdleBatch ==
    /\ fileIdx = 0 /\ FILE_NAME = <<>> /\ openFiles = {} /\ offered = {}
    /\ present = {} /\ SDS_NAME = "" /\ swath = "" /\ rangeRead = FALSE
    /\ out = ""
IdleGeo ==
    /\ lat = NoArray /\ lon = NoArray /\ geoShape = <<0, 0>>
    /\ bounds = <<NaN, NaN, NaN, NaN>>
IdleData ==
    /\ raw = NoArray /\ attrs = NoAttrs /\ dataShape = <<0, 0>>
    /\ dataArray = NoArray /\ again = NoArray
IdleQuery ==
    /\ user_lat = NaN /\ user_lon = NaN /\ d = NoArray /\ x = -1 /\ y = -1
IdleWin == radius = -1 /\ report = NoReport
IdleRange == valid_min = NaN /\ valid_max = NaN
NoDump == [shape |-> <<0, 0>>, sds |-> NoArray, at |-> NoArray]
IdlePool ==
    /\ futures = <<>> /\ result = <<>> /\ collected = {}
    /\ success_count = 0 /\ figs = <<>> /\ saved = <<>>
IdleHeat ==
    /\ dataset = <<>> /\ latitudes = <<>> /\ longitudes = <<>>
    /\ so2_values = <<>> /\ df = <<>>
IdleScripts == dump = NoDump /\ output = NoArray /\ IdlePool /\ IdleHeat

\* Calibration and window statistics on every field of the bounded shapes.
InitCalib ==
    /\ pc = "calibrate"
    /\ IdleBatch /\ IdleGeo /\ IdleQuery /\ IdleWin
    /\ IdleRange /\ IdleScripts
    /\ dataShape \in Shapes
    /\ raw \in [Cells(dataShape) -> RawValues]
    /\ attrs \in AttrSets
    /\ dataArray = NoArray /\ again = NoArray

\* Lines 78-81 applied to the drawn field.
CalApply ==
    /\ pc = "calibrate"
    /\ dataArray' = Calibrate(raw, attrs)
    /\ pc' = "window"
    /\ UNCHANGED <<fileIdx, FILE_NAME, openFiles, offered, present, SDS_NAME,
                   swath, rangeRead, out>>
    /\ UNCHANGED <<geoVars, raw, attrs, dataShape, again, queryVars, winVars>>
    /\ UNCHANGED <<rangeVars, scriptVars>>

\* Lines 131-143 applied at an in-bounds pixel with a radius.
WinApply ==
    /\ pc = "window"
    /\ \E row \in 0 .. dataShape[1] - 1, col \in 0 .. dataShape[2] - 1,
          r \in 0 .. MaxRadius :
          /\ x' = row /\ y' = col /\ radius' = r
          /\ report' = (r :> WindowStats(dataArray, dataShape, row, col, r))
    /\ pc' = "reported"
    /\ UNCHANGED <<fileIdx, FILE_NAME, openFiles, offered, present, SDS_NAME,
                   swath, rangeRead, out>>
    /\ UNCHANGED <<geoVars, dataVars, user_lat, user_lon, d>>
    /\ UNCHANGED <<rangeVars, scriptVars>>

\* Lines 78-81 applied to their own output, with the same attributes.
CalAgain ==
    /\ pc = "window"
    /\ again' = Recalibrate(dataArray, attrs)
    /\ pc' = "recalibrated"
    /\ UNCHANGED <<fileIdx, FILE_NAME, openFiles, offered, present, SDS_NAME,
                   swath, rangeRead, out>>
    /\ UNCHANGED <<geoVars, raw, attrs, dataShape, dataArray, queryVars,
                   winVars>>
    /\ UNCHANGED <<rangeVars, scriptVars>>

NextCalib == CalApply \/ WinApply \/ CalAgain

SpecCalib == InitCalib /\ [][NextCalib]_vars

----------------------------------------------------------------------------
(* Claims about calibration and window statistics, under SpecCalib.        *)

Calibrated == pc \in {"window", "reported"}
IsSentinel(c) == raw[c] = attrs.fv \/ raw[c] = attrs.mv
Physical(c) == attrs.scale * (raw[c] - attrs.offset)

\* C1: every cell whose raw value equals the fill value or the missing value
\* is NaN ('no data') in the calibrated array, whatever scale * (raw - offset)
\* would have given for it.
C1_SentinelIsNoData ==
    Calibrated =>
        \A c \in DOMAIN raw : IsSentinel(c) => IsNaN(dataArray[c])

\* A calibrated field with a fill cell and a different missing cell, under a
\* scale and an offset that are not the identity.
C1_Witness ==
    /\ Calibrated
    /\ attrs.fv # attrs.mv /\ attrs.scale # 1 /\ attrs.offset # 0
    /\ \E c \in DOMAIN raw : raw[c] = attrs.fv /\ IsNaN(dataArray[c])
    /\ \E c \in DOMAIN raw : raw[c] = attrs.mv /\ IsNaN(dataArray[c])

\* C2: every cell whose raw value is neither the fill nor the missing value
\* holds scale * (raw - offset); the comparison is made on the raw value, so
\* a cell whose calibrated value equals fv or mv stays numeric.
C2_NumericIsScaled ==
    Calibrated =>
        \A c \in DOMAIN raw :
            ~IsSentinel(c) => dataArray[c] = Num(Physical(c))

\* A cell that is not a sentinel and whose calibrated value equals the
\* missing value stays numeric, beside a cell that holds the missing value
\* itself and is masked.
C2_Witness ==
    /\ Calibrated
    /\ attrs.mv # attrs.fv
    /\ \E c \in DOMAIN raw :
          /\ ~IsSentinel(c) /\ Physical(c) = attrs.mv
          /\ dataArray[c] = Num(attrs.mv)
    /\ \E c \in DOMAIN raw : raw[c] = attrs.mv /\ IsNaN(dataArray[c])

\* The cells of the array within r rows and r columns of (row, col).
Near(shape, row, col, r) ==
    {c \in Cells(shape) :
        /\ row - r <= c[1] /\ c[1] <= row + r
        /\ col - r <= c[2] /\ c[2] <= col + r}

RECURSIVE PhysicalSum(_)
PhysicalSum(S) ==
    IF S = {} THEN 0
    ELSE LET c == CHOOSE e \in S : TRUE
         IN  Physical(c) + PhysicalSum(S \ {c})

\* C4: the valid count of a window is the number of cells of the clamped
\* window whose raw value was neither fill nor missing, and the mean is the
\* sum of exactly those cells over that count.
C4_CountAndMean ==
    pc = "reported" =>
        LET V == {c \in Near(dataShape, x, y, radius) : ~IsSentinel(c)}
            n == Cardinality(V)
        IN  /\ report[radius].nnan = n
            /\ n > 0 => report[radius].avg = Rat(PhysicalSum(V), n)

\* A window cut by the array edge that holds a masked cell and two valid
\* cells of different values.
C4_Witness ==
    /\ pc = "reported"
    /\ radius > 0
    /\ LET W == Near(dataShape, x, y, radius)
       IN  /\ Cardinality(W) < (2 * radius + 1) * (2 * radius + 1)
           /\ \E c \in W : IsSentinel(c)
           /\ \E c, e \in W :
                 ~IsSentinel(c) /\ ~IsSentinel(e) /\ Physical(c) # Physical(e)
           /\ report[radius].nnan < Cardinality(W)
           /\ report[radius].nnan >= 2

----------------------------------------------------------------------------
(* The batch loop: read_omi_no2_so2_at_a_location.py main(), lines 19-162. *)
(* A file name is the sequence of its characters.  An exception that no    *)
(* except clause of main() catches ends the run: pc = "crashed".           *)

NO2 == <<"N", "O", "2">>
SO2 == <<"S", "O", "2">>

\* The lines of fileList.txt, stripped.
FileNames ==
    { <<"O", "M", "N", "O", "2">>,
      <<"O", "M", "S", "O", "2">>,
      <<"O", "M", "T", "O", "3">>,
      <<"N", "O", "2", "S", "O", "2">>,
      <<"S", "O", "2", "N", "O", "2">> }

\* tok in name: tok is a contiguous run of name.
Contains(name, tok) ==
    \E i \in 1 .. (Len(name) - Len(tok) + 1) :
        SubSeq(name, i, i + Len(tok) - 1) = tok

\* The mutant tests 'SO2' before 'NO2'.
ProductSO2First(name) ==
    IF Contains(name, SO2) THEN "SO2"
    ELSE IF Contains(name, NO2) THEN "NO2"
    ELSE "none"

\* The if / elif / else of lines 39, 46 and 56.
Product(name) ==
    IF Contains(name, NO2) THEN "NO2"
    ELSE IF Contains(name, SO2) THEN "SO2"
    ELSE "none"

\* The mutant reads both products from the NO2 swath.
SchemaOneSwath(product) ==
    IF product = "NO2"
    THEN [swath |-> "ColumnAmountNO2", sds |-> "ColumnAmountNO2",
          ranged |-> FALSE,
          banner |-> "This is an OMI NO2 file. Here is some information:"]
    ELSE [swath |-> "ColumnAmountNO2", sds |-> "ColumnAmountSO2_PBL",
          ranged |-> TRUE,
          banner |-> "This is an OMI SO2 file. Here is some information:"]

\* What each branch selects: lines 40-45 for NO2, lines 47-55 for SO2.
Schema(product) ==
    IF product = "NO2"
    THEN [swath |-> "ColumnAmountNO2", sds |-> "ColumnAmountNO2",
          ranged |-> FALSE,
          banner |-> "This is an OMI NO2 file. Here is some information:"]
    ELSE [swath |-> "OMI Total Column Amount SO2",
          sds |-> "ColumnAmountSO2_PBL", ranged |-> TRUE,
          banner |-> "This is an OMI SO2 file. Here is some information:"]

MsgSkipping == "Skipping..."
MsgAsk == "Would you like to process"
MsgOpenError == "Error opening file"
MsgNotValid == "is not a valid OMI NO2 or SO2 file."
MsgNoSds == "Sorry, your OMI file does not contain the SDS"
MsgValidRange == "Valid Range is:"
MsgNoValue == "(No Value)"
MsgValue == "The value at this pixel is"
MsgNoPixels == "There are no valid pixels"
MsgPixels == "valid pixels in a grid centered at your entered location."

\* The primary fields a Data Fields group may hold.
FieldNames == {"ColumnAmountNO2", "ColumnAmountSO2_PBL"}
\* The attributes lines 73-76 read.
AttrNames == {"ScaleFactor", "_FillValue", "MissingValue", "Offset"}

\* The arrays a file of the batch may hold.
BatchShapes == {<<1, 1>>, <<1, BatchWidth>>}
BatchLat == {Num(0)}
BatchLon == {Num(0), Num(60)}
BatchRaw == {0, 1}
BatchAttrs == [fv : {0}, mv : {0}, scale : {2}, offset : {0}]
\* The ValidRange attributes of the files: one that the calibrated values
\* leave, one that holds them.
BatchRanges == {<<0, 1>>, <<0, 5>>}

\* The per-file variables before a file is processed.  Python keeps the
\* values of the previous iteration, but every one of them is assigned in the
\* loop body before it is read, so an iteration starts from fresh values.
FreshFile ==
    /\ present' = {} /\ SDS_NAME' = "" /\ swath' = "" /\ rangeRead' = FALSE
    /\ lat' = NoArray /\ lon' = NoArray /\ geoShape' = <<0, 0>>
    /\ bounds' = <<NaN, NaN, NaN, NaN>>
    /\ raw' = NoArray /\ attrs' = NoAttrs /\ dataShape' = <<0, 0>>
    /\ dataArray' = NoArray /\ again' = NoArray
    /\ user_lat' = NaN /\ user_lon' = NaN /\ d' = NoArray
    /\ x' = -1 /\ y' = -1
    /\ radius' = -1 /\ report' = NoReport
    /\ valid_min' = NaN /\ valid_max' = NaN

Init ==
    /\ pc = "for"
    /\ IdleBatch /\ IdleGeo /\ IdleData /\ IdleQuery /\ IdleWin
    /\ IdleRange /\ IdleScripts

\* The mutant opens the file whatever the answer to the prompt is.
ForNextIgnoreAnswer ==
    /\ pc = "for"
    /\ fileIdx < NumFiles
    /\ fileIdx' = fileIdx + 1
    /\ offered' = offered \cup {fileIdx + 1}
    /\ FILE_NAME' \in FileNames
    /\ \E user_input \in {"y", "n"} :
          /\ out' = (IF user_input = "n" THEN MsgSkipping ELSE MsgAsk)
          /\ pc' = "open"
    /\ FreshFile
    /\ UNCHANGED openFiles
    /\ UNCHANGED scriptVars

\* Lines 26-31: the next line of the list and the process prompt.
ForNext ==
    /\ pc = "for"
    /\ fileIdx < NumFiles
    /\ fileIdx' = fileIdx + 1
    /\ offered' = offered \cup {fileIdx + 1}
    /\ FILE_NAME' \in FileNames
    /\ \E user_input \in {"y", "n"} :
          IF user_input = "n"
          THEN out' = MsgSkipping /\ pc' = "for"
          ELSE out' = MsgAsk /\ pc' = "open"
    /\ FreshFile
    /\ UNCHANGED openFiles
    /\ UNCHANGED scriptVars

\* The mutant reports the failure and goes on with the file.
OpenFileNoContinue ==
    /\ pc = "open"
    /\ \E opens \in BOOLEAN :
          /\ IF opens
             THEN /\ openFiles' = openFiles \cup {fileIdx}
                  /\ present' \in SUBSET FieldNames
                  /\ UNCHANGED out
             ELSE /\ out' = MsgOpenError
                  /\ UNCHANGED <<openFiles, present>>
          /\ pc' = "resolve"
    /\ UNCHANGED <<fileIdx, FILE_NAME, offered, SDS_NAME, swath, rangeRead>>
    /\ UNCHANGED <<geoVars, dataVars, queryVars, winVars>>
    /\ UNCHANGED <<rangeVars, scriptVars>>

\* Lines 33-37: h5py.File(FILE_NAME, 'r').
OpenFile ==
    /\ pc = "open"
    /\ \E opens \in BOOLEAN :
          IF opens
          THEN /\ openFiles' = openFiles \cup {fileIdx}
               /\ present' \in SUBSET FieldNames
               /\ pc' = "resolve"
               /\ UNCHANGED out
          ELSE /\ out' = MsgOpenError
               /\ pc' = "for"
               /\ UNCHANGED <<openFiles, present>>
    /\ UNCHANGED <<fileIdx, FILE_NAME, offered, SDS_NAME, swath, rangeRead>>
    /\ UNCHANGED <<geoVars, dataVars, queryVars, winVars>>
    /\ UNCHANGED <<rangeVars, scriptVars>>

\* Lines 52-53: valid_min and valid_max, read by the ranged (SO2) branch only.
ReadValidRange(s) ==
    IF s.ranged
    THEN \E vr \in BatchRanges :
            valid_min' = Num(vr[1]) /\ valid_max' = Num(vr[2])
    ELSE UNCHANGED rangeVars

\* Lines 39-55: the branch of a recognised product.  The swath groups, the
\* field, ValidRange and Units are looked up outside any try block.
ResolveProduct ==
    /\ pc = "resolve"
    /\ Product(FILE_NAME) # "none"
    /\ LET s == Schema(Product(FILE_NAME))
       IN  \E hasGroups, hasRange, hasUnits \in BOOLEAN :
              IF ~hasGroups
              THEN /\ pc' = "crashed" /\ out' = s.banner
                   /\ UNCHANGED <<swath, SDS_NAME, rangeRead, rangeVars>>
              ELSE /\ swath' = s.swath
                   /\ SDS_NAME' = s.sds
                   /\ IF s.sds \notin present
                      THEN /\ pc' = "crashed" /\ out' = s.banner
                           /\ UNCHANGED <<rangeRead, rangeVars>>
                      ELSE IF s.ranged /\ ~hasRange
                      THEN /\ pc' = "crashed" /\ out' = s.banner
                           /\ UNCHANGED <<rangeRead, rangeVars>>
                      ELSE IF ~hasUnits
                      THEN /\ pc' = "crashed" /\ out' = s.banner
                           /\ rangeRead' = s.ranged
                           /\ ReadValidRange(s)
                      ELSE /\ pc' = "readGeo"
                           /\ rangeRead' = s.ranged
                           /\ ReadValidRange(s)
                           /\ out' = IF s.ranged THEN MsgValidRange
                                     ELSE s.banner
    /\ UNCHANGED <<fileIdx, FILE_NAME, openFiles, offered, present>>
    /\ UNCHANGED <<geoVars, dataVars, queryVars, winVars>>
    /\ UNCHANGED scriptVars

\* The mutant leaves the file open.
NotAProductNoClose ==
    /\ pc = "resolve"
    /\ Product(FILE_NAME) = "none"
    /\ out' = MsgNotValid
    /\ pc' = "for"
    /\ UNCHANGED <<fileIdx, FILE_NAME, openFiles, offered, present, SDS_NAME,
                   swath, rangeRead>>
    /\ UNCHANGED <<geoVars, dataVars, queryVars, winVars>>
    /\ UNCHANGED <<rangeVars, scriptVars>>

\* Lines 56-59: the else branch.
NotAProduct ==
    /\ pc = "resolve"
    /\ Product(FILE_NAME) = "none"
    /\ out' = MsgNotValid
    /\ openFiles' = openFiles \ {fileIdx}
    /\ pc' = "for"
    /\ UNCHANGED <<fileIdx, FILE_NAME, offered, present, SDS_NAME, swath,
                   rangeRead>>
    /\ UNCHANGED <<geoVars, dataVars, queryVars, winVars>>
    /\ UNCHANGED <<rangeVars, scriptVars>>

\* Lines 61-64: the geolocation arrays and their bounds.
ReadGeo ==
    /\ pc = "readGeo"
    /\ \E hasLatLon \in BOOLEAN :
          IF ~hasLatLon
          THEN /\ pc' = "crashed"
               /\ UNCHANGED geoVars
          ELSE /\ geoShape' \in BatchShapes
               /\ lat' \in [Cells(geoShape') -> BatchLat]
               /\ lon' \in [Cells(geoShape') -> BatchLon]
               /\ bounds' = BoundsOf(lat', lon')
               /\ pc' = "lookup"
    /\ UNCHANGED <<fileIdx, FILE_NAME, openFiles, offered, present, SDS_NAME,
                   swath, rangeRead, out>>
    /\ UNCHANGED <<dataVars, queryVars, winVars>>
    /\ UNCHANGED <<rangeVars, scriptVars>>

\* Lines 66-71: the guarded lookup of the primary field.
LookupSds ==
    /\ pc = "lookup"
    /\ IF SDS_NAME \in present
       THEN /\ pc' = "calibrate"
            /\ UNCHANGED <<out, openFiles>>
       ELSE /\ out' = MsgNoSds
            /\ openFiles' = openFiles \ {fileIdx}
            /\ pc' = "for"
    /\ UNCHANGED <<fileIdx, FILE_NAME, offered, present, SDS_NAME, swath,
                   rangeRead>>
    /\ UNCHANGED <<geoVars, dataVars, queryVars, winVars>>
    /\ UNCHANGED <<rangeVars, scriptVars>>

\* The mutant masks the cells whose value lies outside the valid range.
CalibrateFieldRanged ==
    /\ pc = "calibrate"
    /\ \E have \in SUBSET AttrNames :
          /\ present' = present \cup have
          /\ IF have # AttrNames
             THEN /\ pc' = "crashed"
                  /\ UNCHANGED dataVars
             ELSE /\ attrs' \in BatchAttrs
                  /\ dataShape' \in BatchShapes
                  /\ raw' \in [Cells(dataShape') -> BatchRaw]
                  /\ dataArray' =
                        [c \in Cells(dataShape') |->
                            LET v == Calibrate(raw', attrs')[c]
                            IN  IF rangeRead /\ ~IsNaN(v)
                                   /\ ~InRange(valid_min, v, valid_max)
                                THEN NaN ELSE v]
                  /\ again' = again
                  /\ pc' = "promptLat"
    /\ UNCHANGED <<fileIdx, FILE_NAME, openFiles, offered, SDS_NAME,
                   swath, rangeRead, out>>
    /\ UNCHANGED <<geoVars, queryVars, winVars>>
    /\ UNCHANGED <<rangeVars, scriptVars>>

\* Lines 73-81: the four attributes, then the calibration.  The attributes
\* the field turns out to carry are recorded in present; sds.attrs[...] of an
\* absent one raises a KeyError nothing catches.
CalibrateField ==
    /\ pc = "calibrate"
    /\ \E have \in SUBSET AttrNames :
          /\ present' = present \cup have
          /\ IF have # AttrNames
             THEN /\ pc' = "crashed"
                  /\ UNCHANGED dataVars
             ELSE /\ attrs' \in BatchAttrs
                  /\ dataShape' \in BatchShapes
                  /\ raw' \in [Cells(dataShape') -> BatchRaw]
                  /\ dataArray' = Calibrate(raw', attrs')
                  /\ again' = again
                  /\ pc' = "promptLat"
    /\ UNCHANGED <<fileIdx, FILE_NAME, openFiles, offered, SDS_NAME,
                   swath, rangeRead, out>>
    /\ UNCHANGED <<geoVars, queryVars, winVars>>
    /\ UNCHANGED <<rangeVars, scriptVars>>

\* Lines 119-122: the value at the nearest pixel; dataArray[x, y] raises an
\* IndexError when (x, y) is outside the field.
PixelValue ==
    /\ pc = "pixel"
    /\ IF <<x, y>> \notin Cells(dataShape)
       THEN pc' = "crashed" /\ UNCHANGED out
       ELSE /\ out' = IF IsNaN(dataArray[<<x, y>>]) THEN MsgNoValue
                      ELSE MsgValue
            /\ pc' = "win3"
    /\ UNCHANGED <<fileIdx, FILE_NAME, openFiles, offered, present, SDS_NAME,
                   swath, rangeRead>>
    /\ UNCHANGED <<geoVars, dataVars, queryVars, winVars>>
    /\ UNCHANGED <<rangeVars, scriptVars>>

\* What a window prints.
WindowMsg(rep) == IF rep.kind = "none" THEN MsgNoPixels ELSE MsgPixels

\* Lines 130-143: the 3x3 window.
Win3 ==
    /\ pc = "win3"
    /\ radius' = 1
    /\ report' = (1 :> WindowStats(dataArray, dataShape, x, y, 1))
    /\ out' = WindowMsg(report'[1])
    /\ pc' = "win5"
    /\ UNCHANGED <<fileIdx, FILE_NAME, openFiles, offered, present, SDS_NAME,
                   swath, rangeRead>>
    /\ UNCHANGED <<geoVars, dataVars, queryVars>>
    /\ UNCHANGED <<rangeVars, scriptVars>>

\* The mutant takes the second window with radius 0.
Win5Radius0 ==
    /\ pc = "win5"
    /\ radius' = 2
    /\ report' = report @@ (2 :> WindowStats(dataArray, dataShape, x, y, 0))
    /\ out' = WindowMsg(report'[2])
    /\ pc' = "close"
    /\ UNCHANGED <<fileIdx, FILE_NAME, openFiles, offered, present, SDS_NAME,
                   swath, rangeRead>>
    /\ UNCHANGED <<geoVars, dataVars, queryVars>>
    /\ UNCHANGED <<rangeVars, scriptVars>>

\* Lines 145-158: the 5x5 window.
Win5 ==
    /\ pc = "win5"
    /\ radius' = 2
    /\ report' = report @@ (2 :> WindowStats(dataArray, dataShape, x, y, 2))
    /\ out' = WindowMsg(report'[2])
    /\ pc' = "close"
    /\ UNCHANGED <<fileIdx, FILE_NAME, openFiles, offered, present, SDS_NAME,
                   swath, rangeRead>>
    /\ UNCHANGED <<geoVars, dataVars, queryVars>>
    /\ UNCHANGED <<rangeVars, scriptVars>>

\* Line 160: file.close() at the end of the loop body.
CloseFile ==
    /\ pc = "close"
    /\ openFiles' = openFiles \ {fileIdx}
    /\ pc' = "for"
    /\ UNCHANGED <<fileIdx, FILE_NAME, offered, present, SDS_NAME, swath,
                   rangeRead, out>>
    /\ UNCHANGED <<geoVars, dataVars, queryVars, winVars>>
    /\ UNCHANGED <<rangeVars, scriptVars>>

\* Line 162: the list is exhausted.
EndList ==
    /\ pc = "for"
    /\ fileIdx = NumFiles
    /\ pc' = "done"
    /\ UNCHANGED <<fileIdx, FILE_NAME, openFiles, offered, present, SDS_NAME,
                   swath, rangeRead, out>>
    /\ UNCHANGED <<geoVars, dataVars, queryVars, winVars>>
    /\ UNCHANGED <<rangeVars, scriptVars>>

Next ==
    \/ ForNext \/ OpenFile \/ ResolveProduct \/ NotAProduct \/ ReadGeo
    \/ LookupSds \/ CalibrateField \/ PromptLat \/ PromptLon \/ Locate
    \/ PixelValue \/ Win3 \/ Win5 \/ CloseFile \/ EndList

Spec == Init /\ [][Next]_vars

----------------------------------------------------------------------------
(* The nearest-pixel search on every bounded geolocation grid.             *)

InitLocate ==
    /\ pc = "promptLat"
    /\ IdleBatch /\ IdleData /\ IdleQuery /\ IdleWin
    /\ IdleRange /\ IdleScripts
    /\ geoShape \in GeoShapes
    /\ lat \in [Cells(geoShape) -> LatValues]
    /\ lon \in [Cells(geoShape) -> LonValues]
    /\ bounds = BoundsOf(lat, lon)

NextLocate == PromptLat \/ PromptLon \/ Locate

SpecLocate == InitLocate /\ [][NextLocate]_vars

\* C3: for every grid and every query point accepted by the range check,
\* the located (row, col) is at a distance from the query point that is less
\* than or equal to the distance of every cell of the grid.
C3_LocateIsGlobalMin ==
    pc = "pixel" =>
        \A c \in Cells(geoShape) :
            FLeq(Haversine(lat[<<x, y>>], lon[<<x, y>>], user_lat, user_lon),
                 Haversine(lat[c], lon[c], user_lat, user_lon))

\* A located pixel that is not the first cell, on a grid with three
\* different distances to the query point.
C3_Witness ==
    /\ pc = "pixel"
    /\ <<x, y>> # <<0, 0>>
    /\ Cardinality({d[c] : c \in Cells(geoShape)}) >= 3
    /\ \E c \in Cells(geoShape) : Val(d[c]) > Val(d[<<x, y>>])

----------------------------------------------------------------------------
(* Claims about the batch loop, under Spec.                                *)

\* The positions of main() after a product branch has completed.
PostResolve ==
    {"readGeo", "lookup", "calibrate", "promptLat", "promptLon", "locate",
     "pixel", "win3", "win5", "close"}
\* The positions at which no file is being processed.
AtLoopHead == {"for", "done"}

HasNO2(name) == Contains(name, NO2)
HasSO2(name) == Contains(name, SO2)
NothingRead ==
    /\ lat = NoArray /\ lon = NoArray /\ raw = NoArray
    /\ dataArray = NoArray /\ user_lat = NaN /\ user_lon = NaN

\* The valid cells of the window of radius r around the located pixel.
ValidNear(r) == {c \in Near(dataShape, x, y, r) : ~IsNaN(dataArray[c])}

\* C5: the statistics of a window are computed if and only if its valid
\* count is not zero; a zero count is reported as 'no valid pixels', is not
\* an error, and the file goes on: the 5x5 window is evaluated after the
\* 3x3 window and the file is closed.
C5_StatsIffValid ==
    /\ \A r \in DOMAIN report :
          /\ report[r].kind = "stats" <=> ValidNear(r) # {}
          /\ report[r].kind = "none" <=> ValidNear(r) = {}
          /\ report[r].kind = "stats" <=> ~IsNaN(report[r].avg)
          /\ report[r].kind = "stats" <=> ~IsNaN(report[r].med)
          /\ report[r].kind = "stats" <=> ~IsNaN(report[r].var)
    /\ 1 \in DOMAIN report => pc \in {"win5", "close"} \cup AtLoopHead
    /\ (1 \in DOMAIN report /\ pc \in {"close"} \cup AtLoopHead)
          => 2 \in DOMAIN report
    /\ (1 \in DOMAIN report /\ pc \in AtLoopHead) => openFiles = {}

\* A closed file whose 3x3 window was empty and whose 5x5 window was not.
C5_Witness ==
    /\ pc = "for"
    /\ DOMAIN report = {1, 2}
    /\ report[1].kind = "none" /\ report[2].kind = "stats"
    /\ openFiles = {}

\* C6: a name holding exactly one of 'NO2' and 'SO2' resolves to the
\* matching schema: NO2 gives field ColumnAmountNO2 of the ColumnAmountNO2
\* swath and no valid-range read; SO2 gives field ColumnAmountSO2_PBL of the
\* 'OMI Total Column Amount SO2' swath and the ValidRange attribute is read.
C6_OneTokenSchema ==
    pc \in PostResolve =>
        /\ (HasNO2(FILE_NAME) /\ ~HasSO2(FILE_NAME)) =>
              /\ SDS_NAME = "ColumnAmountNO2"
              /\ swath = "ColumnAmountNO2"
              /\ ~rangeRead
        /\ (HasSO2(FILE_NAME) /\ ~HasNO2(FILE_NAME)) =>
              /\ SDS_NAME = "ColumnAmountSO2_PBL"
              /\ swath = "OMI Total Column Amount SO2"
              /\ rangeRead

\* An SO2 file resolved with its valid range read, as the second file.
C6_Witness ==
    /\ pc = "readGeo"
    /\ fileIdx = 2
    /\ HasSO2(FILE_NAME) /\ ~HasNO2(FILE_NAME)
    /\ SDS_NAME = "ColumnAmountSO2_PBL" /\ rangeRead

\* C7 as stated: a name holding both 'NO2' and 'SO2' is NotAProduct; no
\* schema is selected for it and no field is read from it.
C7_BothIsNotAProduct ==
    (HasNO2(FILE_NAME) /\ HasSO2(FILE_NAME)) =>
        /\ SDS_NAME = "" /\ swath = ""
        /\ NothingRead
        /\ pc \in {"open", "resolve"} \cup AtLoopHead

\* C7 as amended: a name holding both 'NO2' and 'SO2' is never reported as
\* not a valid product; the 'NO2' test is made first, so the NO2 schema is
\* selected for it (field and swath ColumnAmountNO2, no valid-range read).
C7_BothIsNO2 ==
    (HasNO2(FILE_NAME) /\ HasSO2(FILE_NAME)) =>
        /\ out # MsgNotValid
        /\ SDS_NAME \in {"", "ColumnAmountNO2"}
        /\ swath \in {"", "ColumnAmountNO2"}
        /\ ~rangeRead
        /\ pc \in PostResolve =>
              SDS_NAME = "ColumnAmountNO2" /\ swath = "ColumnAmountNO2"

\* A file named with 'SO2' before 'NO2', processed to its end as NO2.
C7_Witness ==
    /\ pc = "close"
    /\ FILE_NAME = <<"S", "O", "2", "N", "O", "2">>
    /\ SDS_NAME = "ColumnAmountNO2"
    /\ raw # NoArray /\ DOMAIN report = {1, 2}

\* C8: a file whose name holds neither 'NO2' nor 'SO2' is reported as not
\* valid and closed; no field or geolocation is read, no query prompt is
\* issued, and the loop is back at its head for the next file.
C8_NeitherIsSkipped ==
    (FILE_NAME # <<>> /\ ~HasNO2(FILE_NAME) /\ ~HasSO2(FILE_NAME)) =>
        /\ pc \in {"open", "resolve"} \cup AtLoopHead
        /\ SDS_NAME = "" /\ swath = ""
        /\ NothingRead
        /\ pc \in AtLoopHead =>
              /\ openFiles = {}
              /\ out \in {MsgSkipping, MsgOpenError, MsgNotValid}

\* The first file was reported as not valid and closed, and the loop is at
\* its head with the second file still to come.
C8_Witness ==
    /\ pc = "for"
    /\ fileIdx = 1 /\ fileIdx < NumFiles
    /\ ~HasNO2(FILE_NAME) /\ ~HasSO2(FILE_NAME)
    /\ out = MsgNotValid
    /\ openFiles = {}

\* C9: when the primary field of the resolved schema is absent from the
\* data fields of the file, this is reported as 'field not found', the file
\* is closed and the loop is back at its head: the run does not end.
C9_FieldNotFoundIsLocal ==
    (SDS_NAME # "" /\ SDS_NAME \notin present) =>
        /\ pc = "for"
        /\ out = MsgNoSds
        /\ openFiles = {}

\* C10: whatever fails in a file, every line of the list is offered for
\* processing before the run ends.
C10_EveryFileOffered ==
    pc \in {"done", "crashed"} => offered = 1 .. NumFiles

----------------------------------------------------------------------------
(* Claims about the attributes of the primary field, under Spec.           *)

\* C11: when the ScaleFactor or the Offset attribute is absent from the
\* primary field, the absence is not an error: the field is calibrated with
\* scale factor 1 and offset 0 in place of the absent one, and the run goes
\* on with the file.
C11_ScaleOffsetDefault ==
    (/\ {"_FillValue", "MissingValue"} \subseteq present
     /\ ~({"ScaleFactor", "Offset"} \subseteq present)) =>
        /\ pc # "crashed"
        /\ dataArray # NoArray
        /\ "ScaleFactor" \notin present => attrs.scale = 1
        /\ "Offset" \notin present => attrs.offset = 0

\* C12: the fill value and the missing value are each optional: when the
\* _FillValue or the MissingValue attribute is absent the calibration still
\* completes, and the cells it masks are those equal to a sentinel that is
\* present.
C12_SentinelsOptional ==
    (/\ {"ScaleFactor", "Offset"} \subseteq present
     /\ ~({"_FillValue", "MissingValue"} \subseteq present)) =>
        /\ pc # "crashed"
        /\ dataArray # NoArray
        /\ \A c \in Cells(dataShape) :
              IsNaN(dataArray[c]) <=>
                 \/ "_FillValue" \in present /\ raw[c] = attrs.fv
                 \/ "MissingValue" \in present /\ raw[c] = attrs.mv

----------------------------------------------------------------------------
(* Claims about calibrating twice, under SpecCalib.                        *)

\* C13 as stated: calibrating the output of the calibration again, with the
\* same attributes, gives an array equal to that output.
C13_Idempotent ==
    pc = "recalibrated" => again = dataArray

\* C13: calibrating the output of the calibration again, with the same
\* attributes, leaves every 'no data' cell 'no data'; a numeric cell v is
\* masked when v equals the fill or the missing value and otherwise becomes
\* scale * (v - offset), scaled and offset a second time.
C13_NoDataStaysNoData ==
    pc = "recalibrated" =>
        /\ DOMAIN again = DOMAIN dataArray
        /\ \A c \in DOMAIN raw :
              /\ (IsSentinel(c) \/ IsNaN(dataArray[c])) => IsNaN(again[c])
              /\ ~IsNaN(dataArray[c]) =>
                    again[c] =
                       IF Val(dataArray[c]) \in {attrs.fv, attrs.mv} THEN NaN
                       ELSE Num(attrs.scale *
                                   (Val(dataArray[c]) - attrs.offset))

\* A field calibrated twice under a scale that is not 1, with a 'no data'
\* cell that stayed 'no data' and a numeric cell the second pass changed.
C13_Witness ==
    /\ pc = "recalibrated"
    /\ attrs.scale # 1
    /\ \E c \in DOMAIN raw : IsNaN(dataArray[c]) /\ IsNaN(again[c])
    /\ \E c \in DOMAIN raw :
          /\ ~IsNaN(dataArray[c]) /\ ~IsNaN(again[c])
          /\ again[c] # dataArray[c]

----------------------------------------------------------------------------
(* Claims about the geolocation grid, the query and the batch.             *)

\* C14: when the shape of the geolocation arrays differs from the shape of
\* the calibrated field the file is skipped: the loop is back at its head
\* with the file closed, and neither the nearest-pixel search nor a window
\* report was computed for it.
C14_ShapeMismatchSkips ==
    (dataShape # <<0, 0>> /\ geoShape # <<0, 0>> /\ dataShape # geoShape) =>
        /\ pc \in AtLoopHead
        /\ fileIdx \notin openFiles
        /\ d = NoArray /\ x = -1 /\ y = -1
        /\ report = NoReport

\* The finite entries of an array.
FiniteOf(arr) == {arr[c] : c \in DOMAIN arr} \ {NaN}

\* C15: the bounds of a file are the least and the greatest of the finite
\* entries of Latitude and of Longitude: a non-finite entry changes none of
\* the four bounds the range is printed from and the query is checked
\* against.
C15_BoundsIgnoreNonFinite ==
    (geoShape # <<0, 0>> /\ FiniteOf(lat) # {} /\ FiniteOf(lon) # {}) =>
        /\ bounds[1] \in FiniteOf(lat) /\ bounds[2] \in FiniteOf(lat)
        /\ bounds[3] \in FiniteOf(lon) /\ bounds[4] \in FiniteOf(lon)
        /\ \A v \in FiniteOf(lat) :
              Val(bounds[1]) <= Val(v) /\ Val(v) <= Val(bounds[2])
        /\ \A v \in FiniteOf(lon) :
              Val(bounds[3]) <= Val(v) /\ Val(v) <= Val(bounds[4])

\* The positions of main() from the nearest-pixel search on.
Searching == {"locate", "pixel", "win3", "win5", "close"}
RangeMessages ==
    {"Latitude out of range. Please enter a valid latitude.",
     "Longitude out of range. Please enter a valid longitude."}

\* C16: a query latitude or longitude outside the bounds of the file is
\* never accepted: the nearest-pixel search runs only with
\* min_lat <= lat <= max_lat and min_lon <= lon <= max_lon, and after an
\* out-of-range answer the same file is still open, at a prompt or at the
\* search that follows an accepted answer.
C16_OutOfRangeNeverLocated ==
    /\ ~IsNaN(user_lat) =>
          /\ ~IsNaN(bounds[1]) /\ ~IsNaN(bounds[2])
          /\ Val(bounds[1]) <= Val(user_lat) /\ Val(user_lat) <= Val(bounds[2])
    /\ ~IsNaN(user_lon) =>
          /\ ~IsNaN(bounds[3]) /\ ~IsNaN(bounds[4])
          /\ Val(bounds[3]) <= Val(user_lon) /\ Val(user_lon) <= Val(bounds[4])
    /\ (pc \in Searching \/ d # NoArray) =>
          ~IsNaN(user_lat) /\ ~IsNaN(user_lon)
    /\ out \in RangeMessages =>
          /\ pc \in {"promptLat", "promptLon", "locate"}
          /\ fileIdx \in openFiles

\* A longitude was refused as out of range, another was accepted for the
\* same file, and the search is about to run on the accepted point.
C16_Witness ==
    /\ pc = "locate"
    /\ out = "Longitude out of range. Please enter a valid longitude."
    /\ ~IsNaN(user_lat) /\ ~IsNaN(user_lon)
    /\ fileIdx \in openFiles

----------------------------------------------------------------------------
(* Claims about the window, under SpecCalib.                               *)

\* C17: for radius 0 and every in-bounds (row, col) the window is the single
\* cell (row, col): the valid count is 0 when the cell is 'no data' and 1
\* otherwise, and when it is 1 the mean and the median equal the calibrated
\* value of the cell and the variance, hence the standard deviation, is 0.
C17_RadiusZeroIsTheCell ==
    (pc = "reported" /\ radius = 0) =>
        LET rep == report[0]
            cell == dataArray[<<x, y>>]
        IN  /\ WindowCells(dataShape, x, y, 0) = {<<x, y>>}
            /\ rep.nnan = (IF IsNaN(cell) THEN 0 ELSE 1)
            /\ IsNaN(cell) => rep.kind = "none"
            /\ ~IsNaN(cell) =>
                  /\ rep.kind = "stats"
                  /\ rep.avg[2] > 0 /\ rep.avg[1] = Val(cell) * rep.avg[2]
                  /\ rep.med[2] > 0 /\ rep.med[1] = Val(cell) * rep.med[2]
                  /\ rep.var[2] > 0 /\ rep.var[1] = 0

\* A radius-0 report on a numeric cell that is not 0, whose neighbours hold a
\* 'no data' cell and a different numeric value.
C17_Witness ==
    /\ pc = "reported" /\ radius = 0
    /\ ~IsNaN(dataArray[<<x, y>>]) /\ Val(dataArray[<<x, y>>]) # 0
    /\ report[0].nnan = 1
    /\ \E c \in Near(dataShape, x, y, 1) : IsNaN(dataArray[c])
    /\ \E c \in Near(dataShape, x, y, 1) :
          ~IsNaN(dataArray[c]) /\ dataArray[c] # dataArray[<<x, y>>]

\* C19: for every in-bounds (row, col) and radius the clamped window has
\* 0 <= rowStart <= row < rowEnd <= height with rowStart the greater of
\* row - radius and 0 and rowEnd the lesser of row + radius + 1 and height,
\* the same for the columns, and the cells it selects are the cells of the
\* array within radius of (row, col): none outside, none wrapped, none padded.
C19_WindowInsideArray ==
    pc = "reported" =>
        LET h == dataShape[1]
            w == dataShape[2]
            xs == safe_slice(x, h, radius)
            ys == safe_slice(y, w, radius)
        IN  /\ 0 <= xs[1] /\ xs[1] <= x /\ x < xs[2] /\ xs[2] <= h
            /\ 0 <= ys[1] /\ ys[1] <= y /\ y < ys[2] /\ ys[2] <= w
            /\ xs[1] = (IF x - radius > 0 THEN x - radius ELSE 0)
            /\ xs[2] = (IF x + radius + 1 < h THEN x + radius + 1 ELSE h)
            /\ ys[1] = (IF y - radius > 0 THEN y - radius ELSE 0)
            /\ ys[2] = (IF y + radius + 1 < w THEN y + radius + 1 ELSE w)
            /\ WindowCells(dataShape, x, y, radius) \subseteq Cells(dataShape)
            /\ WindowCells(dataShape, x, y, radius) =
                  (xs[1] .. xs[2] - 1) \X (ys[1] .. ys[2] - 1)

\* A window of radius 2 cut at both ends of the rows and at neither end of
\* the columns.
C19_Witness ==
    /\ pc = "reported" /\ radius = 2
    /\ x - radius < 0 /\ x + radius + 1 > dataShape[1]
    /\ y - radius >= 0 /\ y + radius + 1 <= dataShape[2]
    /\ Cardinality(WindowCells(dataShape, x, y, radius)) = 5

----------------------------------------------------------------------------
(* Claims about ties of the nearest-pixel search, under SpecLocate.        *)

----------------------------------------------------------------------------
(* Claims about the batch loop and its files, under Spec.                  *)

\* C18: a file that cannot be opened is reported and skipped: the step that
\* fails to open it prints the error and returns to the head of the loop,
\* and while that report is the last message nothing was read from the file,
\* no query was asked for it, it is not open, and the loop is at its head,
\* where the next line of the list is taken.
C18_UnopenableIsSkipped ==
    /\ [][(pc = "open" /\ fileIdx \notin openFiles') =>
             (out' = MsgOpenError /\ pc' = "for")]_vars
    /\ [](out = MsgOpenError =>
             /\ pc \in AtLoopHead
             /\ fileIdx \notin openFiles
             /\ present = {} /\ SDS_NAME = "" /\ swath = ""
             /\ NothingRead)

\* The first file could not be opened: the error is reported, nothing was
\* read, and the loop is at its head with the second file still to come.
C18_Witness ==
    /\ out = MsgOpenError
    /\ pc = "for" /\ fileIdx = 1 /\ fileIdx < NumFiles
    /\ openFiles = {} /\ NothingRead

\* C21: at every point of a run at most one container is open, and every
\* file the loop opened is closed when the loop takes the next line of the
\* list and when the run ends, on every path through the loop body.
C21_OneContainerOpen ==
    /\ Cardinality(openFiles) <= 1
    /\ pc \in {"for", "open", "done", "crashed"} => openFiles = {}

\* C22: when the caller answers 'n' to the process prompt the file is not
\* opened and nothing is read from it: the step that prints 'Skipping...'
\* leaves the loop at its head with the set of open files as it was, and
\* while that is the last message no file is open and nothing was read.
C22_DeclinedIsNeverOpened ==
    /\ [][(pc = "for" /\ fileIdx' # fileIdx /\ out' = MsgSkipping) =>
             (pc' = "for" /\ openFiles' = openFiles)]_vars
    /\ [](out = MsgSkipping =>
             /\ pc \in AtLoopHead
             /\ openFiles = {}
             /\ present = {} /\ SDS_NAME = "" /\ swath = ""
             /\ NothingRead)

\* The last file of the list was declined: the loop is at its head, no file
\* is open and nothing of the declined file was read.
C22_Witness ==
    /\ out = MsgSkipping
    /\ pc = "for" /\ fileIdx = NumFiles /\ offered = 1 .. NumFiles
    /\ openFiles = {} /\ NothingRead

\* The cells whose calibrated value lies outside the valid range read.
OutOfValidRange(c) ==
    Physical(c) < Val(valid_min) \/ Physical(c) > Val(valid_max)

\* C23: the valid range of the SO2 schema is advisory: a cell that is
\* neither fill nor missing and whose value lies outside
\* [valid_min, valid_max] holds its calibrated value, and every window
\* reported counts it among its valid pixels.
C23_ValidRangeIsAdvisory ==
    (rangeRead /\ ~IsNaN(valid_min) /\ dataArray # NoArray) =>
        /\ \A c \in Cells(dataShape) :
              (~IsSentinel(c) /\ OutOfValidRange(c)) =>
                 dataArray[c] = Num(Physical(c))
        /\ \A r \in DOMAIN report :
              LET kept == {c \in Near(dataShape, x, y, r) : ~IsSentinel(c)}
              IN  (\E c \in kept : OutOfValidRange(c)) =>
                     /\ report[r].kind = "stats"
                     /\ report[r].nnan = Cardinality(kept)

\* An SO2 file read to its end whose valid range is [0, 1]: a cell of value
\* 2 is numeric and is counted by the 3x3 and the 5x5 window, beside a
\* masked cell.
C23_Witness ==
    /\ pc = "close" /\ rangeRead
    /\ valid_min = Num(0) /\ valid_max = Num(1)
    /\ DOMAIN report = {1, 2}
    /\ \E c \in Near(dataShape, x, y, 1) :
          ~IsSentinel(c) /\ OutOfValidRange(c) /\ dataArray[c] = Num(2)
    /\ \E c \in Near(dataShape, x, y, 1) : IsNaN(dataArray[c])
    /\ report[1].nnan >= 1 /\ report[2].nnan >= 1

\* C24: both windows hold the located cell: whenever the value at the
\* nearest pixel is numeric, the 3x3 and the 5x5 window report at least one
\* valid pixel each, and 'no valid pixels' is not printed for them.
C24_ValidPixelIsInBothWindows ==
    (<<x, y>> \in Cells(dataShape) /\ ~IsNaN(dataArray[<<x, y>>])) =>
        /\ \A r \in DOMAIN report :
              /\ <<x, y>> \in WindowCells(dataShape, x, y, r)
              /\ report[r].kind = "stats"
              /\ report[r].nnan >= 1
        /\ pc \in {"win5", "close"} => out = MsgPixels
        /\ pc = "win3" => out = MsgValue

\* A numeric nearest pixel whose neighbours are all 'no data': each window
\* counts exactly that pixel.
C24_Witness ==
    /\ pc = "close"
    /\ dataShape = <<1, BatchWidth>>
    /\ ~IsNaN(dataArray[<<x, y>>])
    /\ \A c \in Cells(dataShape) \ {<<x, y>>} : IsNaN(dataArray[c])
    /\ report[1].nnan = 1 /\ report[2].nnan = 1
    /\ out = MsgPixels

\* C25: the window of radius 1 is contained in the window of radius 2: the
\* 3x3 valid count is at most the 5x5 valid count, and when the 5x5 window
\* has no valid pixel the 3x3 window has none either.
C25_Window3InsideWindow5 ==
    DOMAIN report = {1, 2} =>
        /\ WindowCells(dataShape, x, y, 1) \subseteq
              WindowCells(dataShape, x, y, 2)
        /\ report[1].nnan <= report[2].nnan
        /\ report[1].nnan = Cardinality(ValidNear(1))
        /\ report[2].nnan = Cardinality(ValidNear(2))
        /\ report[2].kind = "none" => report[1].kind = "none"

\* The 3x3 window has no valid pixel and the 5x5 window, which reaches one
\* column further, has one.
C25_Witness ==
    /\ pc = "close" /\ DOMAIN report = {1, 2}
    /\ report[1].kind = "none" /\ report[1].nnan = 0
    /\ report[2].kind = "stats" /\ report[2].nnan = 1
    /\ WindowCells(dataShape, x, y, 1) # WindowCells(dataShape, x, y, 2)

----------------------------------------------------------------------------
(* The prompt loops under a caller who keeps answering inside the printed  *)
(* ranges.                                                                 *)

\* A pass of a prompt loop that takes the break of line 91 or of line 100.
AcceptLat == PromptLat /\ pc' = "promptLon"
AcceptLon == PromptLon /\ pc' = "locate"

\* The caller gives an answer inside the printed range whenever there is
\* one, and the search that follows an accepted point runs.
SpecAnswering ==
    /\ InitLocate /\ [][NextLocate]_vars
    /\ WF_vars(AcceptLat) /\ WF_vars(AcceptLon) /\ WF_vars(Locate)

\* C26: for every file that reaches the query prompts, the files whose
\* Latitude or Longitude holds non-finite entries included, a caller who
\* keeps answering inside the printed ranges eventually leaves both prompt
\* loops.
C26_PromptsAreLeft ==
    pc = "promptLat" ~> pc \notin {"promptLat", "promptLon"}

----------------------------------------------------------------------------
(* The exported column of read_omi_no2_so2_and_dump_ascii.py, lines        *)
(* 136-153.  A dataset is its shape, its cells and its attributes, a       *)
(* function from the names of the attributes it carries.                   *)

\* sds.attrs.get(name, default)
Get(at, name, default) ==
    IF name \in DOMAIN at THEN Num(at[name]) ELSE default

\* sds[:].ravel(): the cells in row-major order, 0-based.
Ravel(arr, shape) ==
    [i \in FlatIndices(shape) |-> arr[Unravel(i, shape)]]

\* data[data == f] = np.nan, with f a float that may be nan.
MaskEqualFloat(arr, f) ==
    [c \in DOMAIN arr |-> IF FEq(arr[c], f) THEN NaN ELSE arr[c]]

\* data = (data - offset) * scale
OffsetScale(arr, offset, scale) ==
    [c \in DOMAIN arr |-> FMul(FSub(arr[c], offset), scale)]

\* The mutant leaves the nan cells as they are.
FillNaNKeep(arr, f) == arr

\* data[np.isnan(data)] = fill_value
FillNaN(arr, f) ==
    [c \in DOMAIN arr |-> IF IsNaN(arr[c]) THEN f ELSE arr[c]]

\* Lines 136-153 for one dataset.
DumpColumn(ds) ==
    LET scale == Get(ds.at, "ScaleFactor", Num(1))
        fill_value == Get(ds.at, "_FillValue", NaN)
        missing_value == Get(ds.at, "MissingValue", NaN)
        offset == Get(ds.at, "Offset", Num(0))
        data == AsFloat(Ravel(ds.sds, ds.shape))
        masked == MaskEqualFloat(MaskEqualFloat(data, fill_value),
                                 missing_value)
    IN  FillNaN(OffsetScale(masked, offset, scale), fill_value)

\* The datasets of the bounded shapes, with every subset of the attributes.
DumpShapes == {s \in Shapes : s[1] * s[2] <= MaxDumpCells}
DumpAttrValues ==
    [ScaleFactor : {1, 2}, _FillValue : {0}, MissingValue : {0, 1},
     Offset : {0, 1}]
DumpAttrs ==
    UNION {{[n \in have |-> full[n]] : full \in DumpAttrValues} :
               have \in SUBSET AttrNames}

InitDump ==
    /\ pc = "dump"
    /\ IdleBatch /\ IdleGeo /\ IdleData /\ IdleQuery /\ IdleWin /\ IdleRange
    /\ \E shape \in DumpShapes :
          dump \in [shape : {shape}, sds : [Cells(shape) -> RawValues],
                    at : DumpAttrs]
    /\ output = NoArray
    /\ IdlePool /\ IdleHeat

\* The loop body of lines 129-153 for the dataset.
DumpSds ==
    /\ pc = "dump"
    /\ output' = DumpColumn(dump)
    /\ pc' = "dumped"
    /\ UNCHANGED <<fileIdx, FILE_NAME, openFiles, offered, present, SDS_NAME,
                   swath, rangeRead, out>>
    /\ UNCHANGED <<geoVars, dataVars, queryVars, winVars, rangeVars, dump>>
    /\ UNCHANGED <<poolVars, heatVars>>

NextDump == DumpSds

SpecDump == InitDump /\ [][NextDump]_vars

\* The raw value of the cell exported at flat index i, and the sentinels the
\* dataset carries.
RawAt(i) == dump.sds[Unravel(i, dump.shape)]
DumpSentinels ==
    {dump.at[n] : n \in {"_FillValue", "MissingValue"} \cap DOMAIN dump.at}
DumpFill == Get(dump.at, "_FillValue", NaN)
DumpPhysical(i) ==
    (RawAt(i) - (IF "Offset" \in DOMAIN dump.at THEN dump.at["Offset"] ELSE 0))
       * (IF "ScaleFactor" \in DOMAIN dump.at THEN dump.at["ScaleFactor"]
          ELSE 1)

\* C27 as stated: an exported cell equals the fill value exactly when its
\* raw value equalled the fill value or the missing value, and every other
\* exported cell holds (raw - offset) * scale.
C27_FillIffSentinel ==
    pc = "dumped" =>
        \A i \in DOMAIN output :
            /\ output[i] = DumpFill <=> RawAt(i) \in DumpSentinels
            /\ RawAt(i) \notin DumpSentinels =>
                  output[i] = Num(DumpPhysical(i))

\* C27: an exported cell whose raw value equalled the fill value or the
\* missing value holds the fill value (nan when the dataset has none), and
\* every other exported cell holds (raw - offset) * scale, which may itself
\* be equal to the fill value.
C27_SentinelIsFill ==
    pc = "dumped" =>
        /\ DOMAIN output = FlatIndices(dump.shape)
        /\ \A i \in DOMAIN output :
              /\ RawAt(i) \in DumpSentinels => output[i] = DumpFill
              /\ RawAt(i) \notin DumpSentinels =>
                    output[i] = Num(DumpPhysical(i))

\* An exported column of a dataset of two rows with a sentinel cell that
\* holds the fill value and a cell that is no sentinel and whose scaled
\* value equals the fill value.
C27_Witness ==
    /\ pc = "dumped"
    /\ dump.shape[1] > 1
    /\ {"_FillValue", "Offset", "ScaleFactor"} \subseteq DOMAIN dump.at
    /\ \E i \in DOMAIN output :
          RawAt(i) \in DumpSentinels /\ output[i] = DumpFill
    /\ \E i \in DOMAIN output :
          /\ RawAt(i) \notin DumpSentinels
          /\ output[i] = DumpFill /\ DumpPhysical(i) = dump.at["_FillValue"]

----------------------------------------------------------------------------
(* try4.py: main() submits process_file for every file to a thread pool    *)
(* and adds up the results as the futures complete (lines 420-434).  A     *)
(* worker that has SO2 data calls plot_eda, of which one plot is modelled:  *)
(* plt.figure(), the seaborn call that draws on the current figure,         *)
(* plt.savefig() and plt.close() (lines 207-211); the plots that follow     *)
(* repeat the same four calls.  pyplot keeps one list of open figures for   *)
(* the process, the last one being the current figure of every thread.      *)

PoolFiles == 1 .. NumPoolFiles

\* The figure the next pyplot call of any thread acts on: gcf() opens an
\* empty figure when none is open.
WithCurrent(fs) == IF fs = <<>> THEN <<{}>> ELSE fs
AllButLast(fs) == IF fs = <<>> THEN <<>> ELSE SubSeq(fs, 1, Len(fs) - 1)

InitPool ==
    /\ pc = "as_completed"
    /\ IdleBatch /\ IdleGeo /\ IdleData /\ IdleQuery /\ IdleWin /\ IdleRange
    /\ dump = NoDump /\ output = NoArray
    /\ futures = [f \in PoolFiles |-> "queued"]
    /\ result = [f \in PoolFiles |-> -1]
    /\ collected = {}
    /\ success_count = 0
    /\ figs = <<>>
    /\ saved = [f \in PoolFiles |-> {}]
    /\ IdleHeat

\* What no step of try4.py changes.
PoolFrame ==
    /\ UNCHANGED <<fileIdx, FILE_NAME, openFiles, offered, present, SDS_NAME,
                   swath, rangeRead, out>>
    /\ UNCHANGED <<geoVars, dataVars, queryVars, winVars, rangeVars, dump,
                   output, heatVars>>

\* A free worker thread takes a queued call (lines 430-431, MAX_WORKERS
\* threads).
Start(f) ==
    /\ futures[f] = "queued"
    /\ Cardinality({g \in PoolFiles :
                       futures[g] \notin {"queued", "finished"}}) < MAX_WORKERS
    /\ futures' = [futures EXCEPT ![f] = "process_file"]
    /\ UNCHANGED <<pc, result, collected, success_count, figs, saved>>
    /\ PoolFrame

\* Lines 388-418 up to the call of plot_eda: an exception returns 0, an
\* empty SO2 array makes plot_eda return at once and process_file return 1.
ProcessFile(f) ==
    /\ futures[f] = "process_file"
    /\ \E outcome \in {"exception", "empty", "data"} :
          CASE outcome = "exception" ->
                  /\ futures' = [futures EXCEPT ![f] = "finished"]
                  /\ result' = [result EXCEPT ![f] = 0]
            [] outcome = "empty" ->
                  /\ futures' = [futures EXCEPT ![f] = "finished"]
                  /\ result' = [result EXCEPT ![f] = 1]
            [] outcome = "data" ->
                  /\ futures' = [futures EXCEPT ![f] = "figure"]
                  /\ UNCHANGED result
    /\ UNCHANGED <<pc, collected, success_count, figs, saved>>
    /\ PoolFrame

\* Line 207: plt.figure() opens a figure and makes it the current one.
Figure(f) ==
    /\ futures[f] = "figure"
    /\ figs' = Append(figs, {})
    /\ futures' = [futures EXCEPT ![f] = "draw"]
    /\ UNCHANGED <<pc, result, collected, success_count, saved>>
    /\ PoolFrame

\* Lines 208-209: the plot of this file's data goes on the current figure.
Draw(f) ==
    /\ futures[f] = "draw"
    /\ LET fs == WithCurrent(figs)
       IN  figs' = [fs EXCEPT ![Len(fs)] = @ \cup {f}]
    /\ futures' = [futures EXCEPT ![f] = "savefig"]
    /\ UNCHANGED <<pc, result, collected, success_count, saved>>
    /\ PoolFrame

\* Line 210: plt.savefig() writes the current figure to this file's png.
Savefig(f) ==
    /\ futures[f] = "savefig"
    /\ LET fs == WithCurrent(figs)
       IN  /\ figs' = fs
           /\ saved' = [saved EXCEPT ![f] = @ \cup {fs[Len(fs)]}]
    /\ futures' = [futures EXCEPT ![f] = "close"]
    /\ UNCHANGED <<pc, result, collected, success_count>>
    /\ PoolFrame

\* Line 211: plt.close() closes the current figure; line 414: return 1.
Close(f) ==
    /\ futures[f] = "close"
    /\ figs' = AllButLast(figs)
    /\ futures' = [futures EXCEPT ![f] = "finished"]
    /\ result' = [result EXCEPT ![f] = 1]
    /\ UNCHANGED <<pc, collected, success_count, saved>>
    /\ PoolFrame

\* The mutant keeps the last result in place of the sum.
CollectOverwrite(f) ==
    /\ pc = "as_completed"
    /\ futures[f] = "finished" /\ f \notin collected
    /\ collected' = collected \cup {f}
    /\ success_count' = result[f]
    /\ UNCHANGED <<pc, futures, result, figs, saved>>
    /\ PoolFrame

\* Lines 432-434: main() takes a completed future and adds its result.
Collect(f) ==
    /\ pc = "as_completed"
    /\ futures[f] = "finished" /\ f \notin collected
    /\ collected' = collected \cup {f}
    /\ success_count' = success_count + result[f]
    /\ UNCHANGED <<pc, futures, result, figs, saved>>
    /\ PoolFrame

\* Line 444: every future was taken; the count is logged.
PoolDone ==
    /\ pc = "as_completed"
    /\ collected = PoolFiles
    /\ pc' = "logged"
    /\ UNCHANGED poolVars
    /\ PoolFrame

NextPool ==
    \/ \E f \in PoolFiles :
          \/ Start(f) \/ ProcessFile(f) \/ Figure(f) \/ Draw(f)
          \/ Savefig(f) \/ Close(f) \/ Collect(f)
    \/ PoolDone

SpecPool == InitPool /\ [][NextPool]_vars

\* C28: whatever the order in which the workers complete, the counter holds
\* the number of the futures taken so far that returned 1, and when the run
\* logs it, the number of files whose process_file call returned 1.
C28_CountIsSuccesses ==
    pc \in {"as_completed", "logged"} /\ result # <<>> =>
        /\ success_count = Cardinality({f \in collected : result[f] = 1})
        /\ pc = "logged" =>
              /\ collected = PoolFiles
              /\ success_count =
                    Cardinality({f \in PoolFiles : result[f] = 1})

\* The run is over and logged a count of 1: the call of the first file
\* returned 1 after saving its figure and the call of the second returned 0.
C28_Witness ==
    /\ pc = "logged"
    /\ success_count = 1
    /\ result[1] = 1 /\ result[2] = 0
    /\ saved[1] # {}

\* C29: every figure saved by plot_eda for a file holds what was drawn from
\* that file's data and nothing else.
C29_FigureHoldsOwnFile ==
    result # <<>> =>
        \A f \in PoolFiles : \A drawn \in saved[f] : drawn = {f}

----------------------------------------------------------------------------
(* try1.py: the three lists are extracted one key at a time over the       *)
(* opened files (lines 45-69, 104-106) and zipped into the rows of the     *)
(* DataFrame (lines 72-77).  A value is written with the file and the cell *)
(* it was read from; the grids are flattened in row-major order.           *)

LAT_KEY == "HDFEOS/GRIDS/OMI Total Column Amount SO2/Data Fields/Latitude"
LON_KEY == "HDFEOS/GRIDS/OMI Total Column Amount SO2/Data Fields/Longitude"
SO2_KEY ==
    "HDFEOS/GRIDS/OMI Total Column Amount SO2/Data Fields/ColumnAmountSO2"
HeatKeys == {LAT_KEY, LON_KEY, SO2_KEY}

\* What reading a key of a file does: the array, a KeyError, or another
\* exception.
KeyOutcomes == {"ok", "KeyError", "Exception"}

\* An opened file: the outcome of reading each key, and whether the first
\* cell of its SO2 grid holds the fill value.
HeatFiles == [keys : [HeatKeys -> KeyOutcomes], fill : BOOLEAN]

\* Lines 52-60 for one file: the flattened cells, a fill value made nan.
Cleaned(ds, f, key) ==
    [i \in 1 .. HeatCells |->
        [file |-> f, cell |-> i,
         nan |-> (key = SO2_KEY /\ i = 1 /\ ds[f].fill)]]

\* Lines 49-69: the cleaned cells of the files whose read of the key did
\* not raise, in the order of the files.
RECURSIVE ExtractUpTo(_, _, _)
ExtractUpTo(ds, key, n) ==
    IF n = 0 THEN <<>>
    ELSE ExtractUpTo(ds, key, n - 1)
            \o (IF ds[n].keys[key] = "ok" THEN Cleaned(ds, n, key) ELSE <<>>)

extract_dataset_field(ds, key) == ExtractUpTo(ds, key, Len(ds))

\* zip(lat, lon, so2): as many rows as the shortest list has entries.
Zip3(a, b, c) ==
    [i \in 1 .. Min(Len(a), Min(Len(b), Len(c))) |-> <<a[i], b[i], c[i]>>]

\* Lines 76-77: the rows of the zip without those that hold a nan.
create_so2_dataframe(a, b, c) ==
    SelectSeq(Zip3(a, b, c),
              LAMBDA row : ~row[1].nan /\ ~row[2].nan /\ ~row[3].nan)

InitHeat ==
    /\ pc = "extract_lat"
    /\ IdleBatch /\ IdleGeo /\ IdleData /\ IdleQuery /\ IdleWin /\ IdleRange
    /\ dump = NoDump /\ output = NoArray /\ IdlePool
    /\ dataset \in [1 .. NumHeatFiles -> HeatFiles]
    /\ latitudes = <<>> /\ longitudes = <<>> /\ so2_values = <<>>
    /\ df = <<>>

\* What no step of try1.py changes.
HeatFrame ==
    /\ UNCHANGED <<fileIdx, FILE_NAME, openFiles, offered, present, SDS_NAME,
                   swath, rangeRead, out>>
    /\ UNCHANGED <<geoVars, dataVars, queryVars, winVars, rangeVars, dump,
                   output, poolVars, dataset>>

\* Line 104.
ExtractLat ==
    /\ pc = "extract_lat"
    /\ latitudes' = extract_dataset_field(dataset, LAT_KEY)
    /\ pc' = "extract_lon"
    /\ UNCHANGED <<longitudes, so2_values, df>>
    /\ HeatFrame

\* Line 105.
ExtractLon ==
    /\ pc = "extract_lon"
    /\ longitudes' = extract_dataset_field(dataset, LON_KEY)
    /\ pc' = "extract_so2"
    /\ UNCHANGED <<latitudes, so2_values, df>>
    /\ HeatFrame

\* Line 106.
ExtractSo2 ==
    /\ pc = "extract_so2"
    /\ so2_values' = extract_dataset_field(dataset, SO2_KEY)
    /\ pc' = "dataframe"
    /\ UNCHANGED <<latitudes, longitudes, df>>
    /\ HeatFrame

\* Line 109.
CreateDataframe ==
    /\ pc = "dataframe"
    /\ df' = create_so2_dataframe(latitudes, longitudes, so2_values)
    /\ pc' = "heatmap"
    /\ UNCHANGED <<latitudes, longitudes, so2_values>>
    /\ HeatFrame

NextHeat == ExtractLat \/ ExtractLon \/ ExtractSo2 \/ CreateDataframe

SpecHeat == InitHeat /\ [][NextHeat]_vars

\* C30: every row of the DataFrame pairs a latitude, a longitude and an SO2
\* value read from the same cell of the same file, whatever keys the opened
\* files lack and whatever reads raise.
C30_RowsAreOneCell ==
    pc = "heatmap" =>
        \A i \in DOMAIN df :
            /\ df[i][1].file = df[i][2].file /\ df[i][2].file = df[i][3].file
            /\ df[i][1].cell = df[i][2].cell /\ df[i][2].cell = df[i][3].cell

====
